---- MODULE Spec2Model ----
(***************************************************************************)
(* Model of the DataFlint metrics reducers                                 *)
(* (spark-ui/src/reducers/MetricsReducer.ts): the stage store, the job     *)
(* store and the SQL query level metrics, as a state machine whose inputs  *)
(* (raw stages, raw jobs, executors, config, status) are drawn in Init and *)
(* whose actions apply the reducers; and of the run exporter               *)
(* (spark-plugin DataflintListener.onApplicationEnd), whose calls run      *)
(* step by step in any interleaving.                                       *)
(*                                                                         *)
(* Conventions.                                                            *)
(*  - An optional value (JavaScript undefined) is a set: {} is undefined,  *)
(*    {v} is the value v.                                                  *)
(*  - A JavaScript number that results from a division is a Num: an exact  *)
(*    rational in lowest terms, NaN or +Infinity.  Counters and epoch      *)
(*    milliseconds are plain integers.  Floating point rounding is not     *)
(*    modelled.                                                            *)
(*  - A JavaScript object that the reducer may return by reference carries *)
(*    a ref field: the identity of the object.  An object literal or a     *)
(*    spread ({...sql, f: v}) is a new object and gets a fresh ref.        *)
(***************************************************************************)
EXTENDS Integers, Sequences, FiniteSets, TLC

VARIABLES
    stages,        \* raw SparkStages handed to calculateStagesStore
    stagesRdd,     \* raw StagesRdd handed to calculateStagesStore
    jobs,          \* raw SparkJobs handed to calculateJobsStore
    executors,     \* SparkExecutorsStore
    configStore,   \* ConfigStore
    statusStore,   \* StatusStore
    stagesStore,   \* optional SparkStagesStore
    jobsStore,     \* optional SparkJobsStore
    sqlStore,      \* SparkSQLStore: the current snapshot
    prevSqlStore,  \* optional: the existingStore of the last reducer call
    nextRef,       \* next unused object identity
    runs,          \* number of reducer invocations so far
    applicationEnded,  \* DataflintListener.applicationEnded
    pc,            \* position of each onApplicationEnd call
    conf,          \* the spark.dataflint.* settings of the SparkContext
    awsClassExists,    \* com.amazonaws.auth.AWSCredentials is loadable
    effects        \* extractions and uploads attempted so far, in order

metricsVars == <<stages, stagesRdd, jobs, executors, configStore,
                 statusStore, stagesStore, jobsStore, sqlStore,
                 prevSqlStore, nextRef, runs>>

listenerVars == <<applicationEnded, pc, conf, awsClassExists, effects>>

vars == <<stages, stagesRdd, jobs, executors, configStore, statusStore,
          stagesStore, jobsStore, sqlStore, prevSqlStore, nextRef, runs,
          applicationEnded, pc, conf, awsClassExists, effects>>

----------------------------------------------------------------------------
(* Bounds *)

MaxStages == 2
MaxJobs == 2
MaxRuns == 2
MaxCalls == 2

----------------------------------------------------------------------------
(* Program constants *)

MAX_TASK_DURATION_THRESHOLD_MS == 5000
PARTITION_SKEW_RATIO == 10
MS_PER_HOUR == 3600000

----------------------------------------------------------------------------
(* JavaScript numbers *)

Abs(n) == IF n < 0 THEN 0 - n ELSE n

RECURSIVE GCD(_, _)
GCD(a, b) == IF b = 0 THEN a ELSE GCD(b, a % b)

\* the rational n / d, d > 0, in lowest terms
Rat(n, d) ==
    LET g == GCD(Abs(n), d)
    IN  [kind |-> "fin", num |-> n \div g, den |-> d \div g]

NaN == [kind |-> "nan", num |-> 0, den |-> 0]
Infinity == [kind |-> "inf", num |-> 1, den |-> 0]
ToNum(n) == Rat(n, 1)
Zero == ToNum(0)

\* a + b on finite numbers
NumAdd(a, b) ==
    LET g == GCD(a.den, b.den)
        l == (a.den \div g) * b.den
    IN  Rat(a.num * (l \div a.den) + b.num * (l \div b.den), l)

\* a * (p / q) on a finite number, p >= 0, q > 0
NumScale(a, p, q) ==
    LET s  == Rat(p, q)
        g1 == GCD(Abs(a.num), s.den)
        g2 == GCD(s.num, a.den)
    IN  IF a.num = 0 \/ s.num = 0 THEN Zero
        ELSE Rat((a.num \div g1) * (s.num \div g2),
                 (a.den \div g2) * (s.den \div g1))

\* a / b on finite non-negative numbers: 0/0 is NaN, x/0 is Infinity
NumDiv(a, b) ==
    IF b.num = 0
    THEN IF a.num = 0 THEN NaN ELSE Infinity
    ELSE LET g  == GCD(a.den, b.den)
             n  == a.num * (b.den \div g)
             d  == b.num * (a.den \div g)
         IN  Rat(n, d)

\* 0 - a on a finite number
NumNeg(a) == [a EXCEPT !.num = 0 - a.num]

\* a * 100
NumTimes100(a) ==
    IF a.kind = "fin" THEN Rat(a.num * 100, a.den) ELSE a

\* a < b, a <= b on finite numbers
NumLt(a, b) ==
    LET g == GCD(a.den, b.den)
    IN  a.num * (b.den \div g) < b.num * (a.den \div g)
NumLeq(a, b) == a = b \/ NumLt(a, b)

\* Math.min(100, x): NaN if x is NaN
MathMin100(x) ==
    IF x.kind = "nan" THEN NaN
    ELSE IF x.kind = "inf" THEN ToNum(100)
    ELSE IF NumLt(x, ToNum(100)) THEN x ELSE ToNum(100)

----------------------------------------------------------------------------
(* Sequences *)

RECURSIVE SumSeq(_)
SumSeq(s) == IF s = <<>> THEN 0 ELSE Head(s) + SumSeq(Tail(s))

Includes(s, x) == \E i \in 1..Len(s) : s[i] = x

Map(s, F(_)) == [i \in 1..Len(s) |-> F(s[i])]

----------------------------------------------------------------------------
(* calculatePartitionSkew: undefined without a distribution, else the      *)
(* object the code returns; the false branch carries no durations.         *)

\* mutant: the ratio is truncated to an integer before the comparison
calculatePartitionSkew_truncated(stage) ==
    IF stage.taskMetricsDistributions = {}
    THEN {}
    ELSE LET dist == CHOOSE d \in stage.taskMetricsDistributions : TRUE
             medianTaskDuration == dist.executorRunTime[3]
             maxTaskDuration == dist.executorRunTime[5]
         IN  IF /\ maxTaskDuration > MAX_TASK_DURATION_THRESHOLD_MS
                /\ medianTaskDuration # 0
                /\ maxTaskDuration \div medianTaskDuration
                       > PARTITION_SKEW_RATIO
             THEN {[hasPartitionSkew |-> TRUE,
                    medianTaskDuration |-> {medianTaskDuration},
                    maxTaskDuration |-> {maxTaskDuration}]}
             ELSE {[hasPartitionSkew |-> FALSE,
                    medianTaskDuration |-> {},
                    maxTaskDuration |-> {}]}

calculatePartitionSkew(stage) ==
    IF stage.taskMetricsDistributions = {}
    THEN {}
    ELSE LET dist == CHOOSE d \in stage.taskMetricsDistributions : TRUE
             medianTaskDuration == dist.executorRunTime[3]
             maxTaskDuration == dist.executorRunTime[5]
         IN  IF /\ maxTaskDuration > MAX_TASK_DURATION_THRESHOLD_MS
                /\ medianTaskDuration # 0
                /\ NumLt(ToNum(PARTITION_SKEW_RATIO),
                         NumDiv(ToNum(maxTaskDuration),
                                ToNum(medianTaskDuration)))
             THEN {[hasPartitionSkew |-> TRUE,
                    medianTaskDuration |-> {medianTaskDuration},
                    maxTaskDuration |-> {maxTaskDuration}]}
             ELSE {[hasPartitionSkew |-> FALSE,
                    medianTaskDuration |-> {},
                    maxTaskDuration |-> {}]}

----------------------------------------------------------------------------
(* calculateStagesStore *)

IsNotSkipped(stage) == stage.status # "SKIPPED"

StageRecord(stage, rdd) ==
    LET partitionSkew == calculatePartitionSkew(stage)
    IN  [stageId |-> stage.stageId,
         name |-> stage.name,
         status |-> stage.status,
         numTasks |-> stage.numTasks,
         failureReason |-> stage.failureReason,
         stagesRdd |-> IF stage.stageId \in DOMAIN rdd
                       THEN {rdd[stage.stageId]} ELSE {},
         hasPartitionSkew |->
             {p.hasPartitionSkew : p \in partitionSkew},
         mediumTaskDuration |->
             UNION {p.medianTaskDuration : p \in partitionSkew},
         maxTaskDuration |->
             UNION {p.maxTaskDuration : p \in partitionSkew},
         metrics |-> [executorRunTime |-> stage.executorRunTime,
                      diskBytesSpilled |-> stage.diskBytesSpilled,
                      inputBytes |-> stage.inputBytes,
                      outputBytes |-> stage.outputBytes,
                      shuffleReadBytes |-> stage.shuffleReadBytes,
                      shuffleWriteBytes |-> stage.shuffleWriteBytes,
                      totalTasks |-> stage.numTasks]]

\* mutant: the SKIPPED filter is dropped
calculateStagesStore_noFilter(existingStore, rdd, rawStages) ==
    [i \in 1..Len(rawStages) |-> StageRecord(rawStages[i], rdd)]

calculateStagesStore(existingStore, rdd, rawStages) ==
    LET kept == SelectSeq(rawStages, IsNotSkipped)
    IN  [i \in 1..Len(kept) |-> StageRecord(kept[i], rdd)]

----------------------------------------------------------------------------
(* sumMetricStores, calculateJobsMetrics, calculateJobsStore *)

sumMetricStores(metrics) ==
    [executorRunTime |->
         SumSeq([i \in 1..Len(metrics) |-> metrics[i].executorRunTime]),
     diskBytesSpilled |->
         SumSeq([i \in 1..Len(metrics) |-> metrics[i].diskBytesSpilled]),
     inputBytes |->
         SumSeq([i \in 1..Len(metrics) |-> metrics[i].inputBytes]),
     outputBytes |->
         SumSeq([i \in 1..Len(metrics) |-> metrics[i].outputBytes]),
     shuffleReadBytes |->
         SumSeq([i \in 1..Len(metrics) |-> metrics[i].shuffleReadBytes]),
     shuffleWriteBytes |->
         SumSeq([i \in 1..Len(metrics) |-> metrics[i].shuffleWriteBytes]),
     totalTasks |->
         SumSeq([i \in 1..Len(metrics) |-> metrics[i].totalTasks])]

\* mutant: one lookup per listed id, so a repeated id counts twice
calculateJobsMetrics_perId(stagesIds, stageMetrics) ==
    LET RECURSIVE Lookup(_)
        Lookup(ids) ==
            IF ids = <<>> THEN <<>>
            ELSE LET Is(stage) == stage.stageId = Head(ids)
                 IN  SelectSeq(stageMetrics, Is) \o Lookup(Tail(ids))
        jobsMetrics == Lookup(stagesIds)
    IN  sumMetricStores([i \in 1..Len(jobsMetrics) |-> jobsMetrics[i].metrics])

calculateJobsMetrics(stagesIds, stageMetrics) ==
    LET InJob(stage) == Includes(stagesIds, stage.stageId)
        jobsMetrics == SelectSeq(stageMetrics, InJob)
    IN  sumMetricStores([i \in 1..Len(jobsMetrics) |-> jobsMetrics[i].metrics])

calculateJobsStore(existingStore, stageMetrics, rawJobs) ==
    [i \in 1..Len(rawJobs) |->
        [jobId |-> rawJobs[i].jobId,
         name |-> rawJobs[i].name,
         description |-> rawJobs[i].description,
         status |-> rawJobs[i].status,
         stageIds |-> rawJobs[i].stageIds,
         metrics |-> calculateJobsMetrics(rawJobs[i].stageIds, stageMetrics)]]

----------------------------------------------------------------------------
(* moment-range: a range is [start |-> ms, end |-> ms]; intersect gives    *)
(* null ({}) or the common range; valueOf is the length in milliseconds.   *)

Range(start, end) == [start |-> start, end |-> end]

RangeValueOf(r) == r.end - r.start

RangeIntersect(this, other) ==
    LET start == this.start
        end == this.end
        otherStart == other.start
        otherEnd == other.end
    IN  IF start = end /\ (start = otherStart \/ start = otherEnd)
        THEN {}
        ELSE IF start = end /\ start > otherStart /\ start < otherEnd
        THEN {this}
        ELSE IF start # end /\ otherStart = otherEnd
                /\ (otherStart = start \/ otherStart = end)
        THEN {}
        ELSE IF start # end /\ otherStart = otherEnd
                /\ otherStart > start /\ otherStart < end
        THEN {Range(otherStart, otherStart)}
        ELSE IF start <= otherStart /\ otherStart < end /\ end < otherEnd
        THEN {Range(otherStart, end)}
        ELSE IF otherStart < start /\ start < otherEnd /\ otherEnd <= end
        THEN {Range(start, otherEnd)}
        ELSE IF otherStart < start /\ start <= end /\ end < otherEnd
        THEN {this}
        ELSE IF start <= otherStart /\ otherStart <= otherEnd
                /\ otherEnd <= end
        THEN {Range(otherStart, otherEnd)}
        ELSE {}

----------------------------------------------------------------------------
(* calculateSqlQueryResourceUsage *)

msToHours(ms) == NumScale(ms, 1, MS_PER_HOUR)

\* mutant: an intersecting executor is charged its whole lifetime
IntersectAndExecutor_noClip(config, executor, queryRange) ==
    LET executorRange == Range(executor.addTimeEpoc, executor.endTimeEpoc)
        intersect == RangeIntersect(executorRange, queryRange)
    IN  [executorId |-> executor.id,
         isIntersect |-> intersect # {},
         intersectRange |-> intersect,
         intersectTime |->
             IF intersect = {} THEN 0 ELSE RangeValueOf(executorRange),
         cores |-> executor.totalCores,
         memoryGB |->
             NumScale(NumScale(NumScale(
                 ToNum(IF executor.id = "driver"
                       THEN config.driverMemoryBytes
                       ELSE config.executorContainerMemoryBytes),
                 1, 1024), 1, 1024), 1, 1024)]

IntersectAndExecutor(config, executor, queryRange) ==
    LET executorRange == Range(executor.addTimeEpoc, executor.endTimeEpoc)
        intersect == RangeIntersect(executorRange, queryRange)
    IN  [executorId |-> executor.id,
         isIntersect |-> intersect # {},
         intersectRange |-> intersect,
         intersectTime |->
             IF intersect = {} THEN 0
             ELSE RangeValueOf(CHOOSE r \in intersect : TRUE),
         cores |-> executor.totalCores,
         memoryGB |->
             NumScale(NumScale(NumScale(
                 ToNum(IF executor.id = "driver"
                       THEN config.driverMemoryBytes
                       ELSE config.executorContainerMemoryBytes),
                 1, 1024), 1, 1024), 1, 1024)]

\* mutant: the two DCU weights are exchanged
ExecutorUsage_swappedWeights(intersect) ==
    LET coreUsageMs == intersect.intersectTime * intersect.cores
        coreHour == msToHours(ToNum(coreUsageMs))
        memoryHour ==
            msToHours(NumScale(intersect.memoryGB, intersect.intersectTime, 1))
        totalDCU == NumAdd(NumScale(coreHour, 5, 1000),
                           NumScale(memoryHour, 5, 100))
    IN  [coreUsageMs |-> coreUsageMs,
         coreHour |-> coreHour,
         memoryHour |-> memoryHour,
         totalDCU |-> totalDCU]

ExecutorUsage(intersect) ==
    LET coreUsageMs == intersect.intersectTime * intersect.cores
        coreHour == msToHours(ToNum(coreUsageMs))
        memoryHour ==
            msToHours(NumScale(intersect.memoryGB, intersect.intersectTime, 1))
        totalDCU == NumAdd(NumScale(coreHour, 5, 100),
                           NumScale(memoryHour, 5, 1000))
    IN  [coreUsageMs |-> coreUsageMs,
         coreHour |-> coreHour,
         memoryHour |-> memoryHour,
         totalDCU |-> totalDCU]

ZeroUsage ==
    [coreUsageMs |-> 0, coreHour |-> Zero, memoryHour |-> Zero,
     totalDCU |-> Zero]

RECURSIVE ReduceUsage(_, _)
ReduceUsage(a, usages) ==
    IF usages = <<>> THEN a
    ELSE LET b == Head(usages)
         IN  ReduceUsage(
                 [coreUsageMs |-> a.coreUsageMs + b.coreUsageMs,
                  coreHour |-> NumAdd(a.coreHour, b.coreHour),
                  memoryHour |-> NumAdd(a.memoryHour, b.memoryHour),
                  totalDCU |-> NumAdd(a.totalDCU, b.totalDCU)],
                 Tail(usages))

calculateSqlQueryResourceUsage(config, sql, execs) ==
    LET queryEndTimeEpoc == sql.submissionTimeEpoc + sql.duration
        queryRange == Range(sql.submissionTimeEpoc, queryEndTimeEpoc)
        intersectsAndExecutors ==
            [i \in 1..Len(execs) |->
                IntersectAndExecutor(config, execs[i], queryRange)]
    IN  ReduceUsage(ZeroUsage,
            [i \in 1..Len(execs) |->
                ExecutorUsage(intersectsAndExecutors[i])])

----------------------------------------------------------------------------
(* calculateSqlQueryLevelMetricsReducer, one operator per map step *)

SqlStatusFailed == "FAILED"

\* mutant: one lookup per listed job id, so an id in two lists counts twice
sqlMetric_perId(sql, jobStore) ==
    LET allJobsIds == sql.successJobIds \o sql.failedJobIds
                          \o sql.runningJobIds
        RECURSIVE Lookup(_)
        Lookup(ids) ==
            IF ids = <<>> THEN <<>>
            ELSE LET Is(job) == job.jobId = Head(ids)
                 IN  SelectSeq(jobStore, Is) \o Lookup(Tail(ids))
        sqlJobs == Lookup(allJobsIds)
    IN  sumMetricStores([i \in 1..Len(sqlJobs) |-> sqlJobs[i].metrics])

\* lines 216-221: the summed metrics of the query's jobs
sqlMetric(sql, jobStore) ==
    LET allJobsIds == sql.successJobIds \o sql.failedJobIds
                          \o sql.runningJobIds
        InSql(job) == Includes(allJobsIds, job.jobId)
        sqlJobs == SelectSeq(jobStore, InSql)
    IN  sumMetricStores([i \in 1..Len(sqlJobs) |-> sqlJobs[i].metrics])

\* mutant: the totals are compared on executorRunTime only
StageMetricsStep_shallow(sql, jobStore, ref) ==
    IF {sqlMetric(sql, jobStore).executorRunTime}
           = {m.executorRunTime : m \in sql.stageMetrics}
    THEN sql
    ELSE [sql EXCEPT !.stageMetrics = {sqlMetric(sql, jobStore)},
                     !.ref = ref]

\* lines 215-227: the previous object when the total is unchanged
StageMetricsStep(sql, jobStore, ref) ==
    IF {sqlMetric(sql, jobStore)} = sql.stageMetrics
    THEN sql
    ELSE [sql EXCEPT !.stageMetrics = {sqlMetric(sql, jobStore)},
                     !.ref = ref]

NotDriver(executor) == ~executor.isDriver

wastedCoresRate(totalTasksTime, coreUsageMs) ==
    IF coreUsageMs # 0
    THEN MathMin100(
             NumTimes100(
                 NumAdd(ToNum(1),
                        NumNeg(NumDiv(ToNum(totalTasksTime),
                                      ToNum(coreUsageMs))))))
    ELSE Zero

dcuPercentage(status, totalDCU) ==
    IF status.executors = {} THEN Zero
    ELSE MathMin100(NumTimes100(
             NumDiv(totalDCU,
                    (CHOOSE e \in status.executors : TRUE).totalDCU)))

durationPercentage(status, duration) ==
    IF status.duration = {} THEN Zero
    ELSE MathMin100(NumTimes100(
             NumDiv(ToNum(duration),
                    ToNum(CHOOSE d \in status.duration : TRUE))))

\* mutant: the driver is filtered out even from a single entry collection
ResourceMetricsStep_alwaysFilter(config, status, execs, sql, ref) ==
    LET resourceUsageWithDriver ==
            calculateSqlQueryResourceUsage(config, sql, execs)
        resourceUsageExecutorsOnly ==
            calculateSqlQueryResourceUsage(
                config, sql, SelectSeq(execs, NotDriver))
        totalTasksTime ==
            (CHOOSE m \in sql.stageMetrics : TRUE).executorRunTime
        resourceUsageStore ==
            [coreHourUsage |-> resourceUsageWithDriver.coreHour,
             memoryGbHourUsage |-> resourceUsageWithDriver.memoryHour,
             dcu |-> resourceUsageWithDriver.totalDCU,
             wastedCoresRate |->
                 wastedCoresRate(totalTasksTime,
                                 resourceUsageExecutorsOnly.coreUsageMs),
             dcuPercentage |->
                 dcuPercentage(status, resourceUsageWithDriver.totalDCU),
             durationPercentage |->
                 durationPercentage(status, sql.duration)]
    IN  [sql EXCEPT !.resourceMetrics = {resourceUsageStore}, !.ref = ref]

\* lines 228-270
ResourceMetricsStep(config, status, execs, sql, ref) ==
    LET resourceUsageWithDriver ==
            calculateSqlQueryResourceUsage(config, sql, execs)
        resourceUsageExecutorsOnly ==
            IF Len(execs) = 1
            THEN resourceUsageWithDriver
            ELSE calculateSqlQueryResourceUsage(
                     config, sql, SelectSeq(execs, NotDriver))
        totalTasksTime ==
            (CHOOSE m \in sql.stageMetrics : TRUE).executorRunTime
        resourceUsageStore ==
            [coreHourUsage |-> resourceUsageWithDriver.coreHour,
             memoryGbHourUsage |-> resourceUsageWithDriver.memoryHour,
             dcu |-> resourceUsageWithDriver.totalDCU,
             wastedCoresRate |->
                 wastedCoresRate(totalTasksTime,
                                 resourceUsageExecutorsOnly.coreUsageMs),
             dcuPercentage |->
                 dcuPercentage(status, resourceUsageWithDriver.totalDCU),
             durationPercentage |->
                 durationPercentage(status, sql.duration)]
    IN  [sql EXCEPT !.resourceMetrics = {resourceUsageStore}, !.ref = ref]

RECURSIVE FlatStageIds(_)
FlatStageIds(jobSeq) ==
    IF jobSeq = <<>> THEN <<>>
    ELSE Head(jobSeq).stageIds \o FlatStageIds(Tail(jobSeq))

\* mutant: the stages of every job of the query are searched
FailureReasonStep_anyJob(sql, jobStore, stageStore, ref) ==
    LET IsFailedJob(job) ==
            Includes(sql.failedJobIds \o sql.successJobIds
                         \o sql.runningJobIds, job.jobId)
        failedSqlJobs == SelectSeq(jobStore, IsFailedJob)
        jobsStagesIds == FlatStageIds(failedSqlJobs)
        InJobs(stage) == Includes(jobsStagesIds, stage.stageId)
        jobsStages == SelectSeq(stageStore, InJobs)
        IsFailed(stage) == stage.status = SqlStatusFailed
        found == SelectSeq(jobsStages, IsFailed)
        failureReason ==
            IF found = <<>> THEN {} ELSE Head(found).failureReason
    IN  [sql EXCEPT !.failureReason = failureReason, !.ref = ref]

\* lines 271-284
FailureReasonStep(sql, jobStore, stageStore, ref) ==
    LET IsFailedJob(job) == Includes(sql.failedJobIds, job.jobId)
        failedSqlJobs == SelectSeq(jobStore, IsFailedJob)
        jobsStagesIds == FlatStageIds(failedSqlJobs)
        InJobs(stage) == Includes(jobsStagesIds, stage.stageId)
        jobsStages == SelectSeq(stageStore, InJobs)
        IsFailed(stage) == stage.status = SqlStatusFailed
        found == SelectSeq(jobsStages, IsFailed)
        failureReason ==
            IF found = <<>> THEN {} ELSE Head(found).failureReason
    IN  [sql EXCEPT !.failureReason = failureReason, !.ref = ref]

\* SQLNodeStageReducer.calculateSqlStage attaches node level data only
calculateSqlStage(sql, stageStore, jobStore) == sql

calculateSqlQueryLevelMetricsReducer(config, existingStore, status, jobStore, stageStore, execs, ref) ==
    LET n == Len(existingStore.sqls)
        step1 == [i \in 1..n |->
                     StageMetricsStep(existingStore.sqls[i], jobStore,
                                      ref + i - 1)]
        step2 == [i \in 1..n |->
                     ResourceMetricsStep(config, status, execs, step1[i],
                                         ref + n + i - 1)]
        step3 == [i \in 1..n |->
                     FailureReasonStep(step2[i], jobStore, stageStore,
                                       ref + 2 * n + i - 1)]
        newSqls == [i \in 1..n |->
                       calculateSqlStage(step3[i], stageStore, jobStore)]
    IN  [sqls |-> newSqls]

----------------------------------------------------------------------------
(* Actions: one per exported reducer *)

CalculateStagesStore ==
    /\ stagesStore' = {calculateStagesStore(stagesStore, stagesRdd, stages)}
    /\ UNCHANGED <<stages, stagesRdd, jobs, executors, configStore,
                   statusStore, jobsStore, sqlStore, prevSqlStore,
                   nextRef, runs>>
    /\ UNCHANGED listenerVars

CalculateJobsStore ==
    /\ stagesStore # {}
    /\ jobsStore' =
           {calculateJobsStore(jobsStore,
                               CHOOSE s \in stagesStore : TRUE, jobs)}
    /\ UNCHANGED <<stages, stagesRdd, jobs, executors, configStore,
                   statusStore, stagesStore, sqlStore, prevSqlStore,
                   nextRef, runs>>
    /\ UNCHANGED listenerVars

CalculateSqlQueryLevelMetricsReducer ==
    /\ stagesStore # {}
    /\ jobsStore # {}
    /\ runs < MaxRuns
    /\ sqlStore' =
           calculateSqlQueryLevelMetricsReducer(
               configStore, sqlStore, statusStore,
               CHOOSE j \in jobsStore : TRUE,
               CHOOSE s \in stagesStore : TRUE,
               executors, nextRef)
    /\ prevSqlStore' = {sqlStore}
    /\ nextRef' = nextRef + 3 * Len(sqlStore.sqls)
    /\ runs' = runs + 1
    /\ UNCHANGED <<stages, stagesRdd, jobs, executors, configStore,
                   statusStore, stagesStore, jobsStore>>
    /\ UNCHANGED listenerVars

Next ==
    \/ CalculateStagesStore
    \/ CalculateJobsStore
    \/ CalculateSqlQueryLevelMetricsReducer

----------------------------------------------------------------------------
(* Inputs *)

MaxExecutors == 2
MaxSqls == 2

SeqsUpTo(S, n) == UNION {[1..k -> S] : k \in 0..n}

\* a raw stage whose seven counters are distinct multiples of k
RawStage(id, status, reason, dist, k) ==
    [stageId |-> id, name |-> "stage", status |-> status,
     numTasks |-> 13 * k, failureReason |-> reason,
     taskMetricsDistributions |-> dist,
     executorRunTime |-> k, diskBytesSpilled |-> 2 * k,
     inputBytes |-> 3 * k, outputBytes |-> 5 * k,
     shuffleReadBytes |-> 7 * k, shuffleWriteBytes |-> 11 * k]

RawJob(id, stageIds) ==
    [jobId |-> id, name |-> "job", description |-> "count",
     status |-> "SUCCEEDED", stageIds |-> stageIds]

\* the executors store marks as driver the executor whose id is "driver"
IsDriverId(id) == id = "driver"

Executor(id, addTime, endTime, cores) ==
    [id |-> id, isDriver |-> IsDriverId(id), addTimeEpoc |-> addTime,
     endTimeEpoc |-> endTime, totalCores |-> cores]

\* a query as the SQL store holds it before the first metrics pass
Sql(i, q) ==
    [id |-> i, submissionTimeEpoc |-> q.submissionTimeEpoc,
     duration |-> q.duration, successJobIds |-> q.successJobIds,
     failedJobIds |-> q.failedJobIds, runningJobIds |-> q.runningJobIds,
     stageMetrics |-> {}, resourceMetrics |-> {}, failureReason |-> {},
     ref |-> i]

Query(sub, dur, succ, failed, running) ==
    [submissionTimeEpoc |-> sub, duration |-> dur, successJobIds |-> succ,
     failedJobIds |-> failed, runningJobIds |-> running]

Config(driverBytes, executorBytes) ==
    [driverMemoryBytes |-> driverBytes,
     executorContainerMemoryBytes |-> executorBytes]

Status(duration, dcu) ==
    [duration |-> duration, executors |-> {[totalDCU |-> d] : d \in dcu}]

HalfGiB == 512 * 1024 * 1024
OneGiB == 1024 * 1024 * 1024

DefaultConfig == Config(HalfGiB, OneGiB)
DefaultStatus == Status({10}, {Rat(1, 1000)})
DefaultExecutors ==
    <<Executor("driver", 0, 4, 1), Executor("1", 0, 4, 2)>>
DefaultQuery == Query(1, 2, <<1>>, <<2>>, <<>>)

\* the onApplicationEnd calls made on the one listener
Calls == 1..MaxCalls

SparkConf(mode, token, runId) ==
    [mode |-> mode, token |-> token, runId |-> runId]

DefaultConf == SparkConf({}, {<<"key", "secret">>}, {"run"})

\* a DataflintListener after construction, none of its calls started
NewListener(confs, classExists) ==
    /\ applicationEnded = FALSE
    /\ pc = [c \in Calls |-> "start"]
    /\ conf \in confs
    /\ awsClassExists \in classExists
    /\ effects = <<>>

InitWith(stageSeqs, jobSeqs, querySeqs, executorSeqs, configs, statuses) ==
    /\ NewListener({DefaultConf}, {TRUE})
    /\ stages \in stageSeqs
    /\ stagesRdd = [i \in {1} |-> [name |-> "rdd"]]
    /\ jobs \in jobSeqs
    /\ executors \in executorSeqs
    /\ configStore \in configs
    /\ statusStore \in statuses
    /\ stagesStore = {}
    /\ jobsStore = {}
    /\ \E qs \in querySeqs :
          /\ sqlStore = [sqls |-> [i \in 1..Len(qs) |-> Sql(i, qs[i])]]
          /\ nextRef = Len(qs) + 1
    /\ prevSqlStore = {}
    /\ runs = 0

(* Stage and job aggregation: every stage and job collection *)

StageChoices ==
    {RawStage(1, "COMPLETE", {}, {}, 1), RawStage(1, "SKIPPED", {}, {}, 1),
     RawStage(2, "COMPLETE", {}, {}, 4), RawStage(2, "SKIPPED", {}, {}, 4),
     RawStage(1, "COMPLETE", {}, {}, 4)}

JobStageIds == {<<1>>, <<1, 2>>, <<1, 1>>, <<2, 3>>}

\* jobs numbered 1, 2, ... with the given stage id lists
JobsOf(idLists) == [i \in 1..Len(idLists) |-> RawJob(i, idLists[i])]

JobSeqs == {JobsOf(l) : l \in SeqsUpTo(JobStageIds, MaxJobs) \ {<<>>}}

InitJobs ==
    InitWith(SeqsUpTo(StageChoices, MaxStages),
             JobSeqs,
             {<<DefaultQuery>>}, {DefaultExecutors},
             {DefaultConfig}, {DefaultStatus})

SpecJobs == InitJobs /\ [][Next]_vars

----------------------------------------------------------------------------
(* Helpers of the properties *)

MetricFields ==
    {"executorRunTime", "diskBytesSpilled", "inputBytes", "outputBytes",
     "shuffleReadBytes", "shuffleWriteBytes", "totalTasks"}

ZeroMetrics == [f \in MetricFields |-> 0]

SeqRange(s) == {s[i] : i \in 1..Len(s)}

PermutationsOf(s) ==
    {[i \in 1..Len(s) |-> s[p[i]]] : p \in Permutations(1..Len(s))}

RemoveAt(s, i) == SubSeq(s, 1, i - 1) \o SubSeq(s, i + 1, Len(s))
InsertAt(s, i, x) == SubSeq(s, 1, i - 1) \o <<x>> \o SubSeq(s, i, Len(s))

TheStagesStore == CHOOSE s \in stagesStore : TRUE
TheJobsStore == CHOOSE j \in jobsStore : TRUE
ThePrevSqlStore == CHOOSE p \in prevSqlStore : TRUE

\* the sum of field f of the records of store at the indices in idx
RECURSIVE SumField(_, _, _)
SumField(store, idx, f) ==
    IF idx = {} THEN 0
    ELSE LET k == CHOOSE k \in idx : TRUE
         IN  store[k].metrics[f] + SumField(store, idx \ {k}, f)

----------------------------------------------------------------------------
(* C1 *)

SkippedStages ==
    {RawStage(1, "SKIPPED", {}, {}, 2), RawStage(2, "SKIPPED", {}, {}, 9),
     RawStage(3, "SKIPPED", {}, {}, 2)}

\* the stage collections that differ from raw in one SKIPPED stage only:
\* one removed, one altered, one added
SkippedVariants(raw) ==
    {RemoveAt(raw, i) : i \in {j \in 1..Len(raw) : raw[j].status = "SKIPPED"}}
    \cup {[raw EXCEPT ![i] = s] :
            i \in {j \in 1..Len(raw) : raw[j].status = "SKIPPED"},
            s \in SkippedStages}
    \cup {InsertAt(raw, i, s) : i \in 1..(Len(raw) + 1), s \in SkippedStages}

JobsMetricsFrom(raw) ==
    LET js == calculateJobsStore({}, calculateStagesStore({}, stagesRdd, raw),
                                 jobs)
    IN  [i \in 1..Len(js) |-> js[i].metrics]

SqlMetricsFrom(raw) ==
    LET js == calculateJobsStore({}, calculateStagesStore({}, stagesRdd, raw),
                                 jobs)
    IN  [i \in 1..Len(sqlStore.sqls) |-> sqlMetric(sqlStore.sqls[i], js)]

\* C1: the stage store holds no SKIPPED record, and the job and query
\* metrics are those of every stage collection that differs from the raw
\* one only by a removed, altered or added SKIPPED stage.
C1_SkippedNeverCounted ==
    /\ stagesStore # {} =>
          \A i \in 1..Len(TheStagesStore) :
              TheStagesStore[i].status # "SKIPPED"
    /\ jobsStore # {} =>
          \A v \in SkippedVariants(stages) :
              JobsMetricsFrom(v) =
                  [i \in 1..Len(TheJobsStore) |-> TheJobsStore[i].metrics]
    /\ runs > 0 =>
          \A v \in SkippedVariants(stages) :
              \A i \in 1..Len(sqlStore.sqls) :
                  sqlStore.sqls[i].stageMetrics = {SqlMetricsFrom(v)[i]}

\* a query was reduced whose job names both a SKIPPED and a counted stage
C1_Witness ==
    /\ runs > 0
    /\ \E j \in 1..Len(jobs), a, b \in 1..Len(stages) :
          /\ Includes(sqlStore.sqls[1].successJobIds, jobs[j].jobId)
          /\ stages[a].status = "SKIPPED"
          /\ stages[b].status # "SKIPPED"
          /\ Includes(jobs[j].stageIds, stages[a].stageId)
          /\ Includes(jobs[j].stageIds, stages[b].stageId)

----------------------------------------------------------------------------
(* C6 *)

\* C6: every field of a job's metrics is the sum of that field over the
\* stage records whose stageId occurs in the job's stageIds, each record
\* once, whatever the order of stageIds and of the stage store, and zero
\* when no record matches.
C6_JobMetricsAreSums ==
    jobsStore # {} =>
        \A j \in 1..Len(TheJobsStore) :
            LET job == TheJobsStore[j]
                store == TheStagesStore
                named == {k \in 1..Len(store) :
                             store[k].stageId \in SeqRange(job.stageIds)}
            IN  /\ \A f \in MetricFields :
                       job.metrics[f] = SumField(store, named, f)
                /\ \A ids \in PermutationsOf(job.stageIds) :
                       \A st \in PermutationsOf(store) :
                           calculateJobsMetrics(ids, st) = job.metrics
                /\ named = {} => job.metrics = ZeroMetrics

\* a job names one stored stage twice, one absent stage, and leaves one
\* stored stage unnamed
C6_Witness ==
    /\ jobsStore # {}
    /\ Len(TheStagesStore) = 2
    /\ TheStagesStore[1].stageId # TheStagesStore[2].stageId
    /\ \E i, j \in 1..Len(TheJobsStore) :
          /\ TheJobsStore[i].stageIds = <<1, 1>>
          /\ TheJobsStore[j].stageIds = <<2, 3>>
          /\ TheJobsStore[i].metrics # ZeroMetrics
          /\ TheJobsStore[j].metrics # ZeroMetrics

----------------------------------------------------------------------------
(* Partition skew: one stage with every task duration distribution *)

MedianDurations == {0, 1, 500, 501, 1000}
MaxDurations == {0, 5000, 5001, 5011, 9000, 10000, 10001, 12000}

Distributions ==
    {[executorRunTime |-> <<0, 0, p[1], p[1], p[2]>>] :
        p \in {q \in MedianDurations \X MaxDurations : q[1] <= q[2]}}

SkewStages ==
    {RawStage(1, "COMPLETE", {}, dist, 1) :
        dist \in {{}} \cup {{d} : d \in Distributions}}

InitSkew ==
    InitWith({<<s>> : s \in SkewStages}
                 \cup {<<RawStage(2, "SKIPPED", {}, {}, 4), s>> :
                          s \in SkewStages},
             {JobsOf(<<<<1>>>>)},
             {<<DefaultQuery>>}, {DefaultExecutors},
             {DefaultConfig}, {DefaultStatus})

SpecSkew == InitSkew /\ [][Next]_vars

\* the raw stages the stage store keeps, in store order
KeptStages == SelectSeq(stages, IsNotSkipped)

DistributionOf(raw) ==
    (CHOOSE d \in raw.taskMetricsDistributions : TRUE).executorRunTime

\* max > 5000, median # 0 and max / median > 10, on exact integers
MeetsSkewThresholds(raw) ==
    /\ DistributionOf(raw)[5] > 5000
    /\ DistributionOf(raw)[3] # 0
    /\ DistributionOf(raw)[5] > 10 * DistributionOf(raw)[3]

\* C8: a stage record has hasPartitionSkew = true exactly when its
\* distribution is present with max > 5000, median # 0 and
\* max / median > 10 (untruncated), false for every other present
\* distribution, and unset when the distribution is absent.
C8_SkewExactlyOnThresholds ==
    stagesStore # {} =>
        \A k \in 1..Len(TheStagesStore) :
            /\ calculatePartitionSkew(KeptStages[k]) = {}
                   <=> KeptStages[k].taskMetricsDistributions = {}
            /\ TheStagesStore[k].hasPartitionSkew =
                   IF KeptStages[k].taskMetricsDistributions = {}
                   THEN {}
                   ELSE {MeetsSkewThresholds(KeptStages[k])}

\* a stored stage is skewed although max / median truncates to 10
C8_Witness ==
    /\ stagesStore # {}
    /\ \E k \in 1..Len(TheStagesStore) :
          /\ TheStagesStore[k].hasPartitionSkew = {TRUE}
          /\ DistributionOf(KeptStages[k])[5]
                 < 11 * DistributionOf(KeptStages[k])[3]

\* C9: a stage whose distribution is present but below the thresholds has
\* hasPartitionSkew = false and carries the median and max durations.
C9_FalseSkewCarriesDurations ==
    stagesStore # {} =>
        \A k \in 1..Len(TheStagesStore) :
            (/\ KeptStages[k].taskMetricsDistributions # {}
             /\ ~MeetsSkewThresholds(KeptStages[k]))
            => /\ TheStagesStore[k].hasPartitionSkew = {FALSE}
               /\ TheStagesStore[k].mediumTaskDuration =
                      {DistributionOf(KeptStages[k])[3]}
               /\ TheStagesStore[k].maxTaskDuration =
                      {DistributionOf(KeptStages[k])[5]}

----------------------------------------------------------------------------
(* Resource usage: every executor collection, query window and run total *)

ExecutorWindows == {<<0, 2>>, <<1, 3>>, <<3, 3>>, <<0, 5>>, <<3, 5>>}

DriverWindows == {<<0, 5>>, <<1, 3>>}

ExecutorChoices ==
    {Executor("driver", w[1], w[2], 1) : w \in DriverWindows}
        \cup {Executor("1", w[1], w[2], 2) : w \in ExecutorWindows}

QueryWindows == {<<1, 2>>, <<2, 0>>, <<2, 2>>}

StatusChoices ==
    {Status({}, {}), Status({0}, {Zero}), Status({1}, {Rat(1, 720000000)}),
     Status({4}, {Rat(1, 1000)}), Status({0}, {Rat(1, 1000)}),
     Status({1}, {Zero})}

InitUsage ==
    InitWith({<<RawStage(1, "COMPLETE", {}, {}, k)>> : k \in {1, 4}},
             {JobsOf(<<<<1>>>>)},
             {<<Query(w[1], w[2], <<1>>, <<>>, <<>>)>> : w \in QueryWindows},
             SeqsUpTo(ExecutorChoices, MaxExecutors),
             {DefaultConfig, Config(OneGiB, HalfGiB)},
             StatusChoices)

SpecUsage == InitUsage /\ [][Next]_vars

Max(a, b) == IF a > b THEN a ELSE b
Min(a, b) == IF a < b THEN a ELSE b

\* length of [submissionTime, submissionTime + duration) /\ [addTime, endTime)
OverlapMs(sql, executor) ==
    Max(0, Min(sql.submissionTimeEpoc + sql.duration, executor.endTimeEpoc)
             - Max(sql.submissionTimeEpoc, executor.addTimeEpoc))

RECURSIVE ExpectedCoreUsageMs(_, _)
ExpectedCoreUsageMs(sql, execs) ==
    IF execs = <<>> THEN 0
    ELSE OverlapMs(sql, Head(execs)) * Head(execs).totalCores
             + ExpectedCoreUsageMs(sql, Tail(execs))

TheResourceMetrics(sql) == CHOOSE r \in sql.resourceMetrics : TRUE
TheStageMetrics(sql) == CHOOSE m \in sql.stageMetrics : TRUE

\* the executors-only usage the reducer divides by
ExecutorsOnlyUsage(sql) ==
    IF Len(executors) = 1
    THEN calculateSqlQueryResourceUsage(configStore, sql, executors)
    ELSE calculateSqlQueryResourceUsage(configStore, sql,
                                        SelectSeq(executors, NotDriver))

\* C10: coreUsageMs is the sum over the executors of overlap * totalCores,
\* overlap = max(0, min(ends) - max(starts)); executors that do not overlap
\* or only touch the query window add 0; no executors give all four
\* fields 0.  The stored wastedCoresRate is the one of that coreUsageMs.
C10_CoreUsageIsOverlapTimesCores ==
    runs > 0 =>
        \A i \in 1..Len(sqlStore.sqls) :
            LET sql == sqlStore.sqls[i]
                usage == calculateSqlQueryResourceUsage(configStore, sql,
                                                        executors)
                only == SelectSeq(executors, NotDriver)
            IN  /\ usage.coreUsageMs = ExpectedCoreUsageMs(sql, executors)
                /\ calculateSqlQueryResourceUsage(configStore, sql,
                                                  only).coreUsageMs
                       = ExpectedCoreUsageMs(sql, only)
                /\ Len(executors) # 1 /\ ExpectedCoreUsageMs(sql, only) # 0
                       => TheResourceMetrics(sql).wastedCoresRate =
                              MathMin100(Rat(
                                  (ExpectedCoreUsageMs(sql, only)
                                       - TheStageMetrics(sql).executorRunTime)
                                      * 100,
                                  ExpectedCoreUsageMs(sql, only)))
                /\ executors = <<>> => usage = ZeroUsage

\* a reduced query overlaps one executor in part and only touches another
C10_Witness ==
    /\ runs > 0
    /\ Len(executors) = 2
    /\ LET sql == sqlStore.sqls[1]
       IN  /\ OverlapMs(sql, executors[1]) > 0
           /\ OverlapMs(sql, executors[1]) < sql.duration
           /\ OverlapMs(sql, executors[1])
                  < executors[1].endTimeEpoc - executors[1].addTimeEpoc
           /\ executors[2].addTimeEpoc
                  = sql.submissionTimeEpoc + sql.duration
           /\ executors[2].endTimeEpoc > executors[2].addTimeEpoc
           /\ TheResourceMetrics(sql).coreHourUsage # Zero

\* C2: wastedCoresRate lies in [0,100], and is 0 when the executors-only
\* coreUsageMs is 0.
C2_WastedCoresRateInRange ==
    runs > 0 =>
        \A i \in 1..Len(sqlStore.sqls) :
            LET sql == sqlStore.sqls[i]
                rate == TheResourceMetrics(sql).wastedCoresRate
            IN  /\ rate.kind = "fin"
                /\ NumLeq(Zero, rate)
                /\ NumLeq(rate, ToNum(100))
                /\ ExecutorsOnlyUsage(sql).coreUsageMs = 0 => rate = Zero

\* C3: a rate whose denominator is zero is 0: wastedCoresRate on zero
\* executors-only coreUsageMs, durationPercentage on zero run duration,
\* dcuPercentage on zero run DCU.
C3_ZeroDenominatorYieldsZero ==
    runs > 0 =>
        \A i \in 1..Len(sqlStore.sqls) :
            LET sql == sqlStore.sqls[i]
                metrics == TheResourceMetrics(sql)
            IN  /\ ExecutorsOnlyUsage(sql).coreUsageMs = 0
                       => metrics.wastedCoresRate = Zero
                /\ statusStore.duration = {0}
                       => metrics.durationPercentage = Zero
                /\ statusStore.executors = {[totalDCU |-> Zero]}
                       => metrics.dcuPercentage = Zero

----------------------------------------------------------------------------
(* The whole pipeline: stages, jobs and queries that share or miss them *)

PipelineStatuses == {"COMPLETE", "FAILED", "SKIPPED"}

PipelineStage(id, status) ==
    RawStage(id, status,
             IF status = "FAILED" THEN {<<"boom", id>>} ELSE {},
             {}, 3 * id - 2)

PipelineStageSeqs ==
    {<<PipelineStage(1, p[1]), PipelineStage(2, p[2])>> :
        p \in {<<"COMPLETE", "COMPLETE">>, <<"COMPLETE", "SKIPPED">>,
                <<"COMPLETE", "FAILED">>, <<"FAILED", "COMPLETE">>,
                <<"FAILED", "FAILED">>}}

PipelineJobSeqs ==
    {JobsOf(l) : l \in SeqsUpTo({<<1>>, <<1, 2>>}, MaxJobs)}

QueryJobLists ==
    {<<<<1>>, <<>>, <<2>>>>, <<<<>>, <<2>>, <<>>>>, <<<<3>>, <<1>>, <<1>>>>}

PipelineQuerySeqs ==
    {[i \in 1..Len(l) |-> Query(1, 2, l[i][1], l[i][2], l[i][3])] :
        l \in SeqsUpTo(QueryJobLists, MaxSqls) \ {<<>>}}

Init ==
    InitWith(PipelineStageSeqs, PipelineJobSeqs, PipelineQuerySeqs,
             {DefaultExecutors}, {DefaultConfig}, {DefaultStatus})

Spec == Init /\ [][Next]_vars

\* equality of two query objects up to their identity
StructEq(a, b) == [a EXCEPT !.ref = 0] = [b EXCEPT !.ref = 0]

AllJobIds(sql) ==
    SeqRange(sql.successJobIds) \cup SeqRange(sql.failedJobIds)
        \cup SeqRange(sql.runningJobIds)

----------------------------------------------------------------------------
(* C7 *)

\* C7: a query's stageMetrics is the field-wise sum of the metrics of the
\* jobs whose jobId is in the union of its three job id lists, each job
\* once; ids without a job add nothing, no job gives all zeros.
C7_QueryMetricsAreSums ==
    runs > 0 =>
        \A i \in 1..Len(sqlStore.sqls) :
            LET sql == sqlStore.sqls[i]
                owned == {k \in 1..Len(TheJobsStore) :
                             TheJobsStore[k].jobId \in AllJobIds(sql)}
            IN  /\ sql.stageMetrics =
                       {[f \in MetricFields |->
                            SumField(TheJobsStore, owned, f)]}
                /\ owned = {} => sql.stageMetrics = {ZeroMetrics}

\* a reduced query lists a job with non-zero metrics in two of its lists
\* and names a job id that has no job
C7_Witness ==
    /\ runs > 0
    /\ \E i \in 1..Len(sqlStore.sqls), k \in 1..Len(TheJobsStore) :
          /\ TheJobsStore[k].jobId \in SeqRange(sqlStore.sqls[i].failedJobIds)
          /\ TheJobsStore[k].jobId \in SeqRange(sqlStore.sqls[i].runningJobIds)
          /\ TheJobsStore[k].metrics # ZeroMetrics
          /\ \E id \in AllJobIds(sqlStore.sqls[i]) :
                \A j \in 1..Len(TheJobsStore) : TheJobsStore[j].jobId # id

----------------------------------------------------------------------------
(* C4 *)

\* C4: on a second invocation with the first output as existing store and
\* the same inputs, a query whose computed total equals its stored total is
\* the previous query object: same reference, same fields.
C4_UnchangedQueryIsSameObject ==
    runs >= 2 =>
        \A i \in 1..Len(sqlStore.sqls) :
            {sqlMetric(ThePrevSqlStore.sqls[i], TheJobsStore)}
                    = ThePrevSqlStore.sqls[i].stageMetrics
                => sqlStore.sqls[i] = ThePrevSqlStore.sqls[i]

\* what the code does keep: the fields of such a query are unchanged
C4_UnchangedQueryIsStructurallyEqual ==
    runs >= 2 =>
        \A i \in 1..Len(sqlStore.sqls) :
            {sqlMetric(ThePrevSqlStore.sqls[i], TheJobsStore)}
                    = ThePrevSqlStore.sqls[i].stageMetrics
                => StructEq(sqlStore.sqls[i], ThePrevSqlStore.sqls[i])

----------------------------------------------------------------------------
(* C5 *)

RawCounters ==
    {"executorRunTime", "diskBytesSpilled", "inputBytes", "outputBytes",
     "shuffleReadBytes", "shuffleWriteBytes", "numTasks"}

\* the last reducer output, recomputed from another raw stage collection
PipelineFrom(raw) ==
    LET ss == calculateStagesStore({}, stagesRdd, raw)
        js == calculateJobsStore({}, ss, jobs)
    IN  calculateSqlQueryLevelMetricsReducer(
            configStore, ThePrevSqlStore, statusStore, js, ss, executors,
            nextRef)

\* the query owns raw stage a through one of its jobs
Owns(sql, a) ==
    \E k \in 1..Len(jobs) :
        /\ jobs[k].jobId \in AllJobIds(sql)
        /\ Includes(jobs[k].stageIds, stages[a].stageId)

\* C5: against a run that differs in one counter of one non-skipped stage,
\* the queries that own the stage have a structurally different entry and
\* all other queries a structurally identical one.
C5_ChangeReachesOwnersOnly ==
    runs > 0 =>
        \A a \in {b \in 1..Len(stages) : stages[b].status # "SKIPPED"} :
            \A c \in RawCounters :
                LET other == PipelineFrom([stages EXCEPT ![a][c] = @ + 1])
                IN  \A i \in 1..Len(sqlStore.sqls) :
                        Owns(sqlStore.sqls[i], a)
                            <=> ~StructEq(other.sqls[i], sqlStore.sqls[i])

\* after a second pass, a counted stage is owned by one query and not by
\* another
C5_Witness ==
    /\ runs >= 2
    /\ Len(sqlStore.sqls) = 2
    /\ \E a \in 1..Len(stages) :
          /\ stages[a].status # "SKIPPED"
          /\ Owns(sqlStore.sqls[1], a)
          /\ ~Owns(sqlStore.sqls[2], a)

----------------------------------------------------------------------------
(* C11 *)

\* the configured memory of an executor in units of half a GiB
MemoryHalfGiB(executor) ==
    (IF executor.id = "driver"
     THEN configStore.driverMemoryBytes
     ELSE configStore.executorContainerMemoryBytes) \div HalfGiB

\* the sum over the executors of overlap_ms * memory, in half GiB ms
RECURSIVE ExpectedMemoryHalfGiBMs(_, _)
ExpectedMemoryHalfGiBMs(sql, execs) ==
    IF execs = <<>> THEN 0
    ELSE OverlapMs(sql, Head(execs)) * MemoryHalfGiB(Head(execs))
             + ExpectedMemoryHalfGiBMs(sql, Tail(execs))

\* C11: with c = coreUsageMs and m = the sum of overlap_ms * memory in half
\* GiB (driver size for the driver, container size otherwise): coreHour =
\* c / 3600000, memoryHour = m / 7200000, and totalDCU = coreHour * 0.05 +
\* memoryHour * 0.005 = (20 * c + m) / 1440000000; the query stores them.
C11_HoursAndDcuFromTotals ==
    runs > 0 =>
        \A i \in 1..Len(sqlStore.sqls) :
            LET sql == sqlStore.sqls[i]
                usage == calculateSqlQueryResourceUsage(configStore, sql,
                                                        executors)
                c == ExpectedCoreUsageMs(sql, executors)
                m == ExpectedMemoryHalfGiBMs(sql, executors)
            IN  /\ usage.coreUsageMs = c
                /\ usage.coreHour = Rat(c, 3600000)
                /\ usage.memoryHour = Rat(m, 7200000)
                /\ usage.totalDCU = Rat(20 * c + m, 1440000000)
                /\ usage.totalDCU =
                       NumAdd(NumScale(usage.coreHour, 5, 100),
                              NumScale(usage.memoryHour, 5, 1000))
                /\ TheResourceMetrics(sql).coreHourUsage = usage.coreHour
                /\ TheResourceMetrics(sql).memoryGbHourUsage
                       = usage.memoryHour
                /\ TheResourceMetrics(sql).dcu = usage.totalDCU

\* a reduced query overlaps the driver and another executor, which are
\* charged different memory sizes
C11_Witness ==
    /\ runs > 0
    /\ \E a, b \in 1..Len(executors) :
          /\ executors[a].id = "driver"
          /\ executors[b].id # "driver"
          /\ OverlapMs(sqlStore.sqls[1], executors[a]) > 0
          /\ OverlapMs(sqlStore.sqls[1], executors[b]) > 0
          /\ MemoryHalfGiB(executors[a]) # MemoryHalfGiB(executors[b])
    /\ TheResourceMetrics(sqlStore.sqls[1]).dcu # Zero

----------------------------------------------------------------------------
(* C12 *)

\* the executors charged the container memory size: all but id "driver"
ChargedContainerMemory(executor) == executor.id # "driver"

\* the core time the claim gives the executors-only variant
ExpectedExecutorsOnlyCoreMs(sql) ==
    IF Len(executors) = 1
    THEN ExpectedCoreUsageMs(sql, executors)
    ELSE ExpectedCoreUsageMs(sql,
                             SelectSeq(executors, ChargedContainerMemory))

\* C12: the executors-only usage is the with-driver usage for a collection
\* of exactly one entry, and otherwise the usage of all executors but the
\* driver, the driver being the executor charged the driver memory size;
\* the stored wastedCoresRate is computed on that core time.
C12_ExecutorsOnlyExcludesDriver ==
    runs > 0 =>
        \A i \in 1..Len(sqlStore.sqls) :
            LET sql == sqlStore.sqls[i]
                only == ExecutorsOnlyUsage(sql)
            IN  /\ Len(executors) = 1 =>
                       only = calculateSqlQueryResourceUsage(
                                  configStore, sql, executors)
                /\ Len(executors) # 1 =>
                       only = calculateSqlQueryResourceUsage(
                                  configStore, sql,
                                  SelectSeq(executors,
                                            ChargedContainerMemory))
                /\ only.coreUsageMs = ExpectedExecutorsOnlyCoreMs(sql)
                /\ TheResourceMetrics(sql).wastedCoresRate =
                       wastedCoresRate(TheStageMetrics(sql).executorRunTime,
                                       ExpectedExecutorsOnlyCoreMs(sql))

\* a reduced query overlaps a lone driver, whose core time is then the
\* denominator, and another run has a driver that is left out
C12_Witness ==
    /\ runs > 0
    /\ Len(executors) = 1
    /\ executors[1].id = "driver"
    /\ OverlapMs(sqlStore.sqls[1], executors[1]) > 0
    /\ TheResourceMetrics(sqlStore.sqls[1]).wastedCoresRate # Zero

----------------------------------------------------------------------------
(* C13 *)

\* min(100, value / total * 100) for a total that is known and not zero
ExpectedPercentage(value, total) ==
    IF NumLeq(total, value) THEN ToNum(100)
    ELSE NumTimes100(NumDiv(value, total))

\* the two percentages wherever the run total is unknown or is not zero
PercentagesOnUsableTotals ==
    runs > 0 =>
        \A i \in 1..Len(sqlStore.sqls) :
            LET sql == sqlStore.sqls[i]
                metrics == TheResourceMetrics(sql)
            IN  /\ statusStore.duration = {}
                       => metrics.durationPercentage = Zero
                /\ statusStore.executors = {}
                       => metrics.dcuPercentage = Zero
                /\ \A d \in statusStore.duration \ {0} :
                       metrics.durationPercentage =
                           ExpectedPercentage(ToNum(sql.duration), ToNum(d))
                /\ \A e \in statusStore.executors :
                       e.totalDCU # Zero =>
                           metrics.dcuPercentage =
                               ExpectedPercentage(metrics.dcu, e.totalDCU)

\* C13: durationPercentage and dcuPercentage are each in [0,100], equal to
\* min(100, query value / run total * 100), and 0 when the run total is
\* unknown.
C13_PercentagesInRange ==
    /\ PercentagesOnUsableTotals
    /\ runs > 0 =>
           \A i \in 1..Len(sqlStore.sqls) :
               LET metrics == TheResourceMetrics(sqlStore.sqls[i])
               IN  \A pct \in {metrics.durationPercentage,
                               metrics.dcuPercentage} :
                       /\ pct.kind = "fin"
                       /\ NumLeq(Zero, pct)
                       /\ NumLeq(pct, ToNum(100))

----------------------------------------------------------------------------
(* Failure reasons: failed stages in either store order, jobs that list
   them in either order, queries that arrive with an earlier reason *)

FailureStage(id, status) ==
    RawStage(id, status,
             IF status = "FAILED" THEN {<<"boom", id>>} ELSE {}, {}, id)

FailureStageSeqs ==
    {<<FailureStage(ids[1], p[1]), FailureStage(ids[2], p[2])>> :
        ids \in {<<1, 2>>, <<2, 1>>},
        p \in {"COMPLETE", "FAILED"} \X {"COMPLETE", "FAILED"}}

FailureJobSeqs ==
    {JobsOf(l) : l \in SeqsUpTo({<<1>>, <<2>>, <<2, 1>>}, MaxJobs)}

StaleReason == {<<"stale", 0>>}

InitFailure ==
    /\ NewListener({DefaultConf}, {TRUE})
    /\ stages \in FailureStageSeqs
    /\ stagesRdd = [i \in {1} |-> [name |-> "rdd"]]
    /\ jobs \in FailureJobSeqs
    /\ executors = DefaultExecutors
    /\ configStore = DefaultConfig
    /\ statusStore = DefaultStatus
    /\ stagesStore = {}
    /\ jobsStore = {}
    /\ \E qs \in PipelineQuerySeqs, earlier \in {{}, StaleReason} :
          /\ sqlStore =
                 [sqls |-> [i \in 1..Len(qs) |->
                               [Sql(i, qs[i]) EXCEPT
                                    !.failureReason = earlier]]]
          /\ nextRef = Len(qs) + 1
    /\ prevSqlStore = {}
    /\ runs = 0

SpecFailure == InitFailure /\ [][Next]_vars

\* positions in the stage store of the failed stages of the failed jobs
FailedStagePositions(sql) ==
    {k \in 1..Len(TheStagesStore) :
        /\ TheStagesStore[k].status = "FAILED"
        /\ \E j \in 1..Len(TheJobsStore) :
              /\ TheJobsStore[j].jobId \in SeqRange(sql.failedJobIds)
              /\ TheStagesStore[k].stageId
                     \in SeqRange(TheJobsStore[j].stageIds)}

\* C14: a query's failureReason is that of the first stage, in stage store
\* order, that is failed and belongs to a job named in failedJobIds; it is
\* absent when there is no such stage, whatever reason the query carried
\* before and whatever failed stages its other jobs or other queries own.
C14_FailureReasonOfFirstFailedStage ==
    runs > 0 =>
        \A i \in 1..Len(sqlStore.sqls) :
            LET sql == sqlStore.sqls[i]
                F == FailedStagePositions(sql)
            IN  /\ F = {} => sql.failureReason = {}
                /\ F # {} =>
                       \E k \in F :
                           /\ \A l \in F : k <= l
                           /\ sql.failureReason =
                                  TheStagesStore[k].failureReason

\* the first query came with an earlier reason and lost it although a
\* successful job of it owns a failed stage; the second query took the
\* reason of the failed stage that is first in the store, which its failed
\* job lists last
C14_Witness ==
    /\ runs = 1
    /\ Len(sqlStore.sqls) = 2
    /\ ThePrevSqlStore.sqls[1].failureReason = StaleReason
    /\ sqlStore.sqls[1].failureReason = {}
    /\ \E j \in 1..Len(TheJobsStore), k \in 1..Len(TheStagesStore) :
          /\ TheJobsStore[j].jobId \in SeqRange(sqlStore.sqls[1].successJobIds)
          /\ TheStagesStore[k].stageId \in SeqRange(TheJobsStore[j].stageIds)
          /\ TheStagesStore[k].status = "FAILED"
    /\ sqlStore.sqls[2].failureReason = {<<"boom", 1>>}
    /\ TheStagesStore[1].stageId = 1
    /\ TheStagesStore[2].status = "FAILED"
    /\ \E j \in 1..Len(TheJobsStore) :
          /\ TheJobsStore[j].jobId \in SeqRange(sqlStore.sqls[2].failedJobIds)
          /\ TheJobsStore[j].stageIds = <<2, 1>>

----------------------------------------------------------------------------
(* The run exporter: DataflintListener.onApplicationEnd.  A call is at
   "start" until it executes getAndSet; "skipped", "disabled", "failed",
   "noAwsClass" and "exported" are the ways it returns. *)

\* mutant: the flag is read but not set
getAndSet_getOnly(flag, newValue) == [old |-> flag, new |-> flag]

\* AtomicBoolean.getAndSet: one atomic step
getAndSet(flag, newValue) == [old |-> flag, new |-> newValue]

KnownModes == {"prod", "staging", "dev", "local"}

\* context.getConf.get("spark.dataflint.mode", "prod")
ModeOf(c) == IF c.mode = {} THEN "prod" ELSE CHOOSE m \in c.mode : TRUE

\* conf.get of the token, tokenParts(0), tokenParts(1) and conf.get of the
\* runId all return instead of throwing
TokenAndRunIdReadable(c) ==
    /\ c.token # {}
    /\ \A parts \in c.token : Len(parts) >= 2
    /\ c.runId # {}

Effect(call, op, ok) == [call |-> call, op |-> op, ok |-> ok]

\* lines 16-19
EnterOnApplicationEnd(c) ==
    /\ pc[c] = "start"
    /\ LET r == getAndSet(applicationEnded, TRUE)
       IN  /\ applicationEnded' = r.new
           /\ pc' = [pc EXCEPT ![c] = IF r.old THEN "skipped" ELSE "mode"]
    /\ UNCHANGED <<conf, awsClassExists, effects>>
    /\ UNCHANGED metricsVars

\* lines 26-30
CheckMode(c) ==
    /\ pc[c] = "mode"
    /\ pc' = [pc EXCEPT ![c] = IF ModeOf(conf) \in KnownModes
                               THEN "token" ELSE "disabled"]
    /\ UNCHANGED <<applicationEnded, conf, awsClassExists, effects>>
    /\ UNCHANGED metricsVars

\* lines 32-36; a Throwable is caught at lines 64-67
ReadToken(c) ==
    /\ pc[c] = "token"
    /\ pc' = [pc EXCEPT ![c] = IF TokenAndRunIdReadable(conf)
                               THEN "extract" ELSE "failed"]
    /\ UNCHANGED <<applicationEnded, conf, awsClassExists, effects>>
    /\ UNCHANGED metricsVars

\* lines 38-42: the extractors return or throw
Extract(c) ==
    /\ pc[c] = "extract"
    /\ \E ok \in BOOLEAN :
          /\ effects' = Append(effects, Effect(c, "extract", ok))
          /\ pc' = [pc EXCEPT ![c] = IF ok THEN "awsCheck" ELSE "failed"]
    /\ UNCHANGED <<applicationEnded, conf, awsClassExists>>
    /\ UNCHANGED metricsVars

\* lines 44-47 and 69-76
CheckAWSCredentialsClass(c) ==
    /\ pc[c] = "awsCheck"
    /\ pc' = [pc EXCEPT ![c] = IF awsClassExists
                               THEN "uploadData" ELSE "noAwsClass"]
    /\ UNCHANGED <<applicationEnded, conf, awsClassExists, effects>>
    /\ UNCHANGED metricsVars

\* lines 49-50: uploadToS3 of the data file returns or throws
UploadData(c) ==
    /\ pc[c] = "uploadData"
    /\ \E ok \in BOOLEAN :
          /\ effects' = Append(effects, Effect(c, "uploadData", ok))
          /\ pc' = [pc EXCEPT ![c] = IF ok THEN "uploadMeta" ELSE "failed"]
    /\ UNCHANGED <<applicationEnded, conf, awsClassExists>>
    /\ UNCHANGED metricsVars

\* lines 52-63: uploadToS3 of the metadata file returns or throws
UploadMeta(c) ==
    /\ pc[c] = "uploadMeta"
    /\ \E ok \in BOOLEAN :
          /\ effects' = Append(effects, Effect(c, "uploadMeta", ok))
          /\ pc' = [pc EXCEPT ![c] = IF ok THEN "exported" ELSE "failed"]
    /\ UNCHANGED <<applicationEnded, conf, awsClassExists>>
    /\ UNCHANGED metricsVars

NextListener ==
    \E c \in Calls :
        \/ EnterOnApplicationEnd(c)
        \/ CheckMode(c)
        \/ ReadToken(c)
        \/ Extract(c)
        \/ CheckAWSCredentialsClass(c)
        \/ UploadData(c)
        \/ UploadMeta(c)

ConfChoices ==
    {SparkConf(mode, token, runId) :
        mode \in {{}, {"local"}, {"test"}},
        token \in {{}, {<<"key">>}, {<<"key", "secret">>}},
        runId \in {{}, {"run"}}}

InitListener ==
    /\ NewListener(ConfChoices, BOOLEAN)
    /\ stages = <<>>
    /\ stagesRdd = <<>>
    /\ jobs = <<>>
    /\ executors = <<>>
    /\ configStore = DefaultConfig
    /\ statusStore = DefaultStatus
    /\ stagesStore = {}
    /\ jobsStore = {}
    /\ sqlStore = [sqls |-> <<>>]
    /\ prevSqlStore = {}
    /\ nextRef = 1
    /\ runs = 0

SpecListener == InitListener /\ [][NextListener]_vars

\* the calls that got past the flag
Proceeded == {c \in Calls : pc[c] \notin {"start", "skipped"}}

EffectsOf(op) == {i \in 1..Len(effects) : effects[i].op = op}

\* C15: whatever the interleaving of the onApplicationEnd calls, at most
\* one of them, the one that flipped applicationEnded, extracts and
\* uploads, at most once each; every other call that has run returned at
\* the flag without an effect, also after an export that was disabled,
\* failed or lacked the AWS class.
C15_ExportsAtMostOnce ==
    /\ Cardinality(Proceeded) <= 1
    /\ applicationEnded <=> \E c \in Calls : pc[c] # "start"
    /\ applicationEnded => Cardinality(Proceeded) = 1
    /\ \A i \in 1..Len(effects) : effects[i].call \in Proceeded
    /\ \A op \in {"extract", "uploadData", "uploadMeta"} :
           Cardinality(EffectsOf(op)) <= 1
    /\ \A c \in Proceeded :
           pc[c] \in {"disabled", "failed", "noAwsClass", "exported"} =>
               \A d \in Calls \ {c} : pc[d] \in {"start", "skipped"}

\* one call failed in its data upload and returned; every other call then
\* ran and returned at the flag, leaving the one upload attempt
C15_Witness ==
    \E c \in Calls :
        /\ pc[c] = "failed"
        /\ \A d \in Calls \ {c} : pc[d] = "skipped"
        /\ effects = <<Effect(c, "extract", TRUE),
                       Effect(c, "uploadData", FALSE)>>

====
